---------------------------- MODULE Spec2Model ----------------------------
(***************************************************************************)
(* Model of src/lib/src/models/source.cpp (imgbrd-grabber):                *)
(*   - Source::Source: loading model.js through the shared QJSEngine,      *)
(*     compiling its "auth" map into Auth objects, reading sites.txt and   *)
(*     supported.txt;                                                      *)
(*   - Source::jsEngine / Source::jsEngineMutex: the lazily created        *)
(*     process-wide statics;                                               *)
(*   - Source::addSite / Source::removeSite: read-modify-write of          *)
(*     sites.txt.                                                          *)
(* Strings that only get compared are TLA+ strings; the text of sites.txt  *)
(* is a sequence of bytes and a QString a sequence of UTF-16 code units,   *)
(* so that toLatin1, the UTF-8 decoding of QString(QByteArray), replace,   *)
(* split, sort and join are computed as Qt computes them.                  *)
(***************************************************************************)
EXTENDS Integers, Sequences, FiniteSets, TLC

(***************************************************************************)
(* Bounds of the model                                                     *)
(***************************************************************************)
\* number of Source objects constructed concurrently
NThreads == 2
\* longest "fields" list of an auth node
MaxFields == 2
\* number of addSite/removeSite calls a caller makes
MaxCalls == 2

Range(s) == {s[i] : i \in DOMAIN s}

(***************************************************************************)
(* QJSValue: the generic document handed back by QJSEngine::evaluate       *)
(***************************************************************************)
Undef == [t |-> "undefined"]
Null == [t |-> "null"]
Str(s) == [t |-> "string", s |-> s]
Num(n) == [t |-> "number", n |-> n]
Arr(items) == [t |-> "array", items |-> items]
\* an object; keys is the enumeration order of its own properties
Obj(keys, props) == [t |-> "object", keys |-> keys, props |-> props]
NoProps == [k \in {} |-> Undef]

\* QJSValue::isUndefined
isUndefined(v) == v.t = "undefined"

\* QJSValue::isObject: arrays are objects
isObject(v) == v.t \in {"object", "array"}

\* QJSValue::property(name): undefined for a missing property and for a
\* value that is no object
property(v, name) ==
    IF v.t = "object" /\ name \in DOMAIN v.props THEN v.props[name] ELSE Undef

\* QJSValue::property(quint32): the i-th element (0-based) of an array
propertyAt(v, i) ==
    IF v.t = "array" /\ i + 1 \in DOMAIN v.items THEN v.items[i + 1] ELSE Undef

\* property("length").toUInt(): the length of an array, 0 for undefined
lengthOf(v) == IF v.t = "array" THEN Len(v.items) ELSE 0

\* QJSValue::toString: ECMAScript ToString.  undefined gives "undefined",
\* an array the join of its elements with "," (null and undefined elements
\* giving ""), an object "[object Object]".
RECURSIVE toString(_)
RECURSIVE joinComma(_)
joinComma(items) ==
    IF items = <<>> THEN ""
    ELSE LET h == IF Head(items).t \in {"undefined", "null"} THEN ""
                  ELSE toString(Head(items))
         IN  IF Len(items) = 1 THEN h ELSE h \o "," \o joinComma(Tail(items))

toString(v) ==
    CASE v.t = "undefined" -> "undefined"
      [] v.t = "null" -> "null"
      [] v.t = "string" -> v.s
      [] v.t = "number" -> ToString(v.n)
      [] v.t = "array" -> joinComma(v.items)
      [] OTHER -> "[object Object]"

\* QJSValue::toInt on the values the documents of this model hold: a number
\* is itself, undefined (NaN) is 0
toInt(v) == IF v.t = "number" THEN v.n ELSE 0


(***************************************************************************)
(* Source::Source, lines 124-160: the fields of an auth node               *)
(***************************************************************************)
\* lines 130, 131, 142: a property read behind an isUndefined guard
guarded(field, name) ==
    IF ~isUndefined(property(field, name))
    THEN toString(property(field, name)) ELSE ""

\* lines 135-136
hashAlgoIgnoringCase(field) ==
    IF toString(property(field, "hash")) \in {"sha1", "SHA1"}
    THEN "Sha1" ELSE "Md5"

hashAlgo(field) ==
    IF toString(property(field, "hash")) = "sha1" THEN "Sha1" ELSE "Md5"

\* line 137: new AuthHashField(key, algo, salt)
AuthHashField(key, algo, salt) ==
    [kind |-> "hash", key |-> key, algo |-> algo, salt |-> salt]

\* line 140: new AuthConstField(key, value)
AuthConstField(key, value) == [kind |-> "const", key |-> key, value |-> value]

\* line 143: new AuthField(fid, key, type, def)
AuthField(fid, key, isPassword, def) ==
    [kind |-> "text", id |-> fid, key |-> key, isPassword |-> isPassword,
     def |-> def]

\* lines 128-144: one iteration of the loop over jsFields
buildField(field) ==
    LET fid == guarded(field, "id")
        key == guarded(field, "key")
        type == toString(property(field, "type"))
    IN  IF type = "hash"
        THEN AuthHashField(key, hashAlgo(field),
                           toString(property(field, "salt")))
        ELSE IF type = "const"
        THEN AuthConstField(key, toString(property(field, "value")))
        ELSE AuthField(fid, key, type = "password", guarded(field, "def"))

\* lines 124-145 with the fields prepended instead of appended
buildFieldsReversed(jsFields) ==
    [i \in 1..lengthOf(jsFields) |->
        buildField(propertyAt(jsFields, lengthOf(jsFields) - i))]

\* lines 124-145: fields.append(...) for i = 0 .. length - 1
buildFields(jsFields) ==
    [i \in 1..lengthOf(jsFields) |-> buildField(propertyAt(jsFields, i - 1))]

\* line 113
checkTypeOf(auth) ==
    IF isObject(property(auth, "check"))
    THEN toString(property(property(auth, "check"), "type")) ELSE ""

\* lines 153-154, by js-helpers' jsToStringList: the elements of an array as
\* strings
jsToStringList(v) ==
    IF v.t = "array" THEN [i \in DOMAIN v.items |-> toString(v.items[i])]
    ELSE <<>>

\* lines 109-161: the Auth built for one entry of the "auth" map
buildAuth(auth) ==
    LET type == toString(property(auth, "type"))
        check == property(auth, "check")
        checkType == checkTypeOf(auth)
        maxPage == IF checkType = "max_page"
                   THEN toInt(property(check, "value")) ELSE 0
    IN  IF type = "oauth2"
        THEN [variant |-> "OAuth2", type |-> type, node |-> auth]
        ELSE IF type = "oauth1"
        THEN [variant |-> "OAuth1", type |-> type, node |-> auth]
        ELSE IF type = "http_basic"
        THEN [variant |-> "HttpBasic", type |-> type, maxPage |-> maxPage,
              passwordType |-> toString(property(auth, "passwordType"))]
        ELSE LET fields == buildFields(property(auth, "fields"))
                 csrf == property(auth, "csrf")
             IN  IF type = "get" \/ type = "post"
                 THEN [variant |-> "Http", type |-> type,
                       url |-> toString(property(auth, "url")),
                       fields |-> fields,
                       cookie |-> IF checkType = "cookie"
                                  THEN toString(property(check, "key"))
                                  ELSE "",
                       redirectUrl |-> IF checkType = "redirect"
                                       THEN toString(property(check, "url"))
                                       ELSE "",
                       csrfUrl |-> IF isObject(csrf)
                                   THEN toString(property(csrf, "url"))
                                   ELSE "",
                       csrfFields |-> IF isObject(csrf)
                                      THEN jsToStringList(
                                               property(csrf, "fields"))
                                      ELSE <<>>]
                 ELSE [variant |-> "Url", type |-> type, fields |-> fields,
                       maxPage |-> maxPage]

\* QJSValueIterator: the own property names of an object, in order
ownKeys(v) == IF v.t = "object" THEN v.keys ELSE <<>>

\* lines 101-166: m_auths after the loop over the "auth" map
compileAuths(jsSource) ==
    LET auths == property(jsSource, "auth")
    IN  [id \in Range(ownKeys(auths)) |-> buildAuth(property(auths, id))]

\* lines 59-65 and 94-98: the tag name format, Lower with an empty
\* separator when the document has no tagFormat
tagNameFormatOf(jsSource) ==
    LET tagFormat == property(jsSource, "tagFormat")
        case == toString(property(tagFormat, "case"))
    IN  IF isUndefined(tagFormat)
        THEN [caseFormat |-> "lower", wordSeparator |-> ""]
        ELSE [caseFormat |-> IF case \in {"lower", "upper_first", "upper",
                                          "caps"}
                             THEN case ELSE "lower",
              wordSeparator |->
                  toString(property(tagFormat, "wordSeparator"))]

(***************************************************************************)
(* Text of sites.txt and supported.txt.  A file is a sequence of bytes, a  *)
(* QString a sequence of UTF-16 code units.                                *)
(***************************************************************************)
\* "\n" and "\r" of lines 223 and 243, '?' written by toLatin1 for a code
\* unit above 255, U+FFFD produced by the UTF-8 decoder for a bad byte
LF == 10
CR == 13
QuestionMark == 63
ReplacementCharacter == 65533

\* QString::toLatin1 (lines 229, 247)
toLatin1(str) ==
    [i \in DOMAIN str |-> IF str[i] <= 255 THEN str[i] ELSE QuestionMark]

isContinuation(b) == b \in 128..191

\* QString(const QByteArray &) (lines 219, 239; lines 178, 195 through
\* Site(line) and append(line)): QString::fromUtf8.  One-, two- and
\* three-byte sequences are decoded; an overlong form, a surrogate, a
\* truncated sequence or a stray byte gives U+FFFD and decoding goes on at
\* the next byte.  No file of the model holds a byte above 239.
RECURSIVE fromUtf8(_)
fromUtf8(b) ==
    IF b = <<>> THEN <<>>
    ELSE LET c == Head(b)
             two == (c - 192) * 64 + (b[2] - 128)
             three == (c - 224) * 4096 + (b[2] - 128) * 64 + (b[3] - 128)
         IN  IF c < 128 THEN <<c>> \o fromUtf8(Tail(b))
             ELSE IF /\ c \in 194..223
                     /\ Len(b) >= 2
                     /\ isContinuation(b[2])
             THEN <<two>> \o fromUtf8(SubSeq(b, 3, Len(b)))
             ELSE IF /\ c \in 224..239
                     /\ Len(b) >= 3
                     /\ isContinuation(b[2])
                     /\ isContinuation(b[3])
                     /\ three >= 2048
                     /\ three \notin 55296..57343
             THEN <<three>> \o fromUtf8(SubSeq(b, 4, Len(b)))
             ELSE <<ReplacementCharacter>> \o fromUtf8(Tail(b))

\* QString::replace("\r", "") (lines 223, 243)
replaceCR(str) == SelectSeq(str, LAMBDA c : c # CR)

\* QString::split(sep): the parts between the separators, empty ones kept
RECURSIVE splitAll(_, _, _)
splitAll(str, sep, cur) ==
    IF str = <<>> THEN <<cur>>
    ELSE IF Head(str) = sep THEN <<cur>> \o splitAll(Tail(str), sep, <<>>)
    ELSE splitAll(Tail(str), sep, Append(cur, Head(str)))

\* QString::split("\n", Qt::SkipEmptyParts) (lines 223, 243)
split(str) == SelectSeq(splitAll(str, LF, <<>>), LAMBDA part : part # <<>>)

\* QStringList::removeDuplicates (line 225): the first occurrence stays
RECURSIVE removeDuplicates(_)
removeDuplicates(list) ==
    IF list = <<>> THEN <<>>
    ELSE LET front == removeDuplicates(SubSeq(list, 1, Len(list) - 1))
             last == list[Len(list)]
         IN  IF last \in Range(front) THEN front ELSE Append(front, last)

\* QString operator<: code unit by code unit, a proper prefix first
RECURSIVE lessThan(_, _)
lessThan(a, b) ==
    IF b = <<>> THEN FALSE
    ELSE IF a = <<>> THEN TRUE
    ELSE IF Head(a) # Head(b) THEN Head(a) < Head(b)
    ELSE lessThan(Tail(a), Tail(b))

RECURSIVE insertSorted(_, _)
insertSorted(x, list) ==
    IF list = <<>> THEN <<x>>
    ELSE IF lessThan(x, Head(list)) THEN <<x>> \o list
    ELSE <<Head(list)>> \o insertSorted(x, Tail(list))

\* QStringList::sort (line 226), case sensitive
RECURSIVE sort(_)
sort(list) ==
    IF list = <<>> THEN <<>> ELSE insertSorted(Head(list), sort(Tail(list)))

\* QStringList::removeAll (line 244)
removeAll(list, url) == SelectSeq(list, LAMBDA e : e # url)

\* QStringList::join("\r\n") (lines 229, 247)
RECURSIVE join(_)
join(list) ==
    IF list = <<>> THEN <<>>
    ELSE IF Len(list) = 1 THEN Head(list)
    ELSE Head(list) \o <<CR, LF>> \o join(Tail(list))

\* lines 219-223 and 239-243: the list addSite and removeSite work on
sitesOf(bytes) == split(replaceCR(fromUtf8(bytes)))

\* lines 223-229: the bytes addSite hands to writeFile
addSiteData(rawSites, url) ==
    toLatin1(join(sort(removeDuplicates(Append(sitesOf(rawSites), url)))))

\* lines 243-247: the bytes removeSite hands to writeFile
removeSiteData(rawSites, url) ==
    toLatin1(join(removeAll(sitesOf(rawSites), url)))

\* QByteArray::trimmed (lines 178, 195): white space off both ends
isSpace(b) == b \in 9..13 \/ b = 32

RECURSIVE trimLeft(_)
trimLeft(b) ==
    IF b # <<>> /\ isSpace(Head(b)) THEN trimLeft(Tail(b)) ELSE b

RECURSIVE trimRight(_)
trimRight(b) ==
    IF b # <<>> /\ isSpace(b[Len(b)])
    THEN trimRight(SubSeq(b, 1, Len(b) - 1)) ELSE b

trimmed(b) == trimRight(trimLeft(b))

\* lines 176-186 and 193-201: every line of the file, trimmed, the empty
\* ones skipped, as QStrings; nothing when the file cannot be opened
readLines(file) ==
    IF ~file.exists THEN <<>>
    ELSE LET lines == splitAll(file.data, LF, <<>>)
             kept == SelectSeq(lines, LAMBDA l : trimmed(l) # <<>>)
         IN  [i \in DOMAIN kept |-> fromUtf8(trimmed(kept[i]))]

(***************************************************************************)
(* State                                                                   *)
(***************************************************************************)
Threads == 1..NThreads
Callers == {1, 2}

VARIABLES
    engine,        \* static QJSEngine *engine of jsEngine(); 0 is nullptr
    enginesBuilt,  \* number of buildJsEngine calls made so far
    mutex,         \* static QMutex *mutex of jsEngineMutex(); 0 is nullptr
    mutexesBuilt,  \* number of QMutex objects created so far
    evaluating,    \* threads inside QJSEngine::evaluate (line 75)
    pc,            \* position of each constructing thread
    dir,           \* plugin directory each thread constructs its Source from
    local,         \* locals of the constructor: engine, mutex, it
    source,        \* the members of each Source
    sitesTxt,      \* bytes of the sites.txt that addSite/removeSite rewrite
    cpc,           \* position of each addSite/removeSite caller
    call,          \* the call in progress: op, url, rawSites, what it saw
    left,          \* calls each caller has still to make
    log            \* the calls that returned, in order of return

loadVars == <<engine, enginesBuilt, mutex, mutexesBuilt, evaluating, pc,
              dir, local, source>>
storeVars == <<sitesTxt, cpc, call, left, log>>
vars == <<engine, enginesBuilt, mutex, mutexesBuilt, evaluating, pc, dir,
          local, source, sitesTxt, cpc, call, left, log>>

\* QJSValue::isError with the check of line 76 left out
isErrorIgnored(v) == FALSE

\* QJSValue::isError (line 76)
isError(v) == v.t = "error"

\* the members of a Source after the initializer list of line 56
NewSource ==
    [m_jsSource |-> Undef, m_name |-> "", m_additionalTokens |-> <<>>,
     m_apis |-> <<>>,
     m_tagNameFormat |-> [caseFormat |-> "lower", wordSeparator |-> ""],
     m_auths |-> NoProps, m_sites |-> <<>>, m_supportedSites |-> <<>>]

NewLocal == [engine |-> 0, mutex |-> 0, it |-> 0]

(***************************************************************************)
(* Source::Source, one action per step that touches shared state           *)
(***************************************************************************)
\* lines 68-69 and 170-172: model.js is opened, or its absence is logged
openModel(t) ==
    /\ pc[t] = "start"
    /\ pc' = [pc EXCEPT ![t] = IF dir[t].model.exists THEN "jsEngine"
                               ELSE "sites"]
    /\ UNCHANGED <<engine, enginesBuilt, mutex, mutexesBuilt,
                   evaluating, dir, local, source>>
    /\ UNCHANGED storeVars

\* line 38 of jsEngine(): the test of the static pointer
jsEngineTest(t) ==
    /\ pc[t] = "jsEngine"
    /\ pc' = [pc EXCEPT ![t] = IF engine = 0 THEN "jsEngineBuild"
                               ELSE "jsEngineReturn"]
    /\ UNCHANGED <<engine, enginesBuilt, mutex, mutexesBuilt,
                   evaluating, dir, local, source>>
    /\ UNCHANGED storeVars

\* line 39 of jsEngine(): engine = buildJsEngine(...)
jsEngineBuild(t) ==
    /\ pc[t] = "jsEngineBuild"
    /\ enginesBuilt' = enginesBuilt + 1
    /\ engine' = enginesBuilt + 1
    /\ pc' = [pc EXCEPT ![t] = "jsEngineReturn"]
    /\ UNCHANGED <<mutex, mutexesBuilt, evaluating, dir, local,
                   source>>
    /\ UNCHANGED storeVars

\* line 42 of jsEngine() and line 74: auto *engine = jsEngine()
jsEngineReturn(t) ==
    /\ pc[t] = "jsEngineReturn"
    /\ local' = [local EXCEPT ![t].engine = engine]
    /\ pc' = [pc EXCEPT ![t] = "evaluate"]
    /\ UNCHANGED <<engine, enginesBuilt, mutex, mutexesBuilt,
                   evaluating, dir, source>>
    /\ UNCHANGED storeVars

\* line 75: the call of engine->evaluate starts; no lock is taken
evaluateBegin(t) ==
    /\ pc[t] = "evaluate"
    /\ evaluating' = evaluating \cup {t}
    /\ pc' = [pc EXCEPT ![t] = "evaluated"]
    /\ UNCHANGED <<engine, enginesBuilt, mutex, mutexesBuilt,
                   dir, local, source>>
    /\ UNCHANGED storeVars

\* lines 75-84: evaluate returns; an error is logged, else name, tokens
\* and the iterator over "apis" are set up
evaluateEnd(t) ==
    LET js == dir[t].model.result
    IN  /\ pc[t] = "evaluated"
        /\ evaluating' = evaluating \ {t}
        /\ IF isError(js)
           THEN /\ source' = [source EXCEPT ![t].m_jsSource = js]
                /\ local' = local
                /\ pc' = [pc EXCEPT ![t] = "sites"]
           ELSE /\ source' = [source EXCEPT
                                 ![t].m_jsSource = js,
                                 ![t].m_name = toString(property(js, "name")),
                                 ![t].m_additionalTokens =
                                     jsToStringList(property(js, "tokens"))]
                /\ local' = [local EXCEPT ![t].it = 0]
                /\ pc' = [pc EXCEPT ![t] = "apis"]
        /\ UNCHANGED <<engine, enginesBuilt, mutex, mutexesBuilt,
                       dir>>
        /\ UNCHANGED storeVars

\* line 85: it.hasNext(); line 86 and line 48 of jsEngineMutex(): the test
\* of the static pointer
apisNext(t) ==
    LET keys == ownKeys(property(source[t].m_jsSource, "apis"))
    IN  /\ pc[t] = "apis"
        /\ pc' = [pc EXCEPT ![t] =
                     IF local[t].it >= Len(keys) THEN "auths"
                     ELSE IF mutex = 0 THEN "jsEngineMutexNew"
                     ELSE "apiAppend"]
        /\ UNCHANGED <<engine, enginesBuilt, mutex, mutexesBuilt, evaluating, dir, local, source>>
        /\ UNCHANGED storeVars

\* line 49 of jsEngineMutex(): mutex = new QMutex()
jsEngineMutexNew(t) ==
    /\ pc[t] = "jsEngineMutexNew"
    /\ mutexesBuilt' = mutexesBuilt + 1
    /\ mutex' = mutexesBuilt + 1
    /\ pc' = [pc EXCEPT ![t] = "apiAppend"]
    /\ UNCHANGED <<engine, enginesBuilt, evaluating, dir, local,
                   source>>
    /\ UNCHANGED storeVars

\* line 52 of jsEngineMutex() and line 87: the JavascriptApi of the next
\* key is appended
apiAppend(t) ==
    LET keys == ownKeys(property(source[t].m_jsSource, "apis"))
        api == [name |-> keys[local[t].it + 1], engine |-> local[t].engine,
                mutex |-> mutex]
    IN  /\ pc[t] = "apiAppend"
        /\ source' = [source EXCEPT ![t].m_apis = Append(@, api)]
        /\ local' = [local EXCEPT ![t].it = @ + 1, ![t].mutex = mutex]
        /\ pc' = [pc EXCEPT ![t] = "apis"]
        /\ UNCHANGED <<engine, enginesBuilt, mutex, mutexesBuilt, evaluating, dir>>
        /\ UNCHANGED storeVars

\* lines 89-169: the tag format and the auth map
readAuths(t) ==
    /\ pc[t] = "auths"
    /\ source' = [source EXCEPT
                     ![t].m_tagNameFormat =
                         tagNameFormatOf(source[t].m_jsSource),
                     ![t].m_auths = compileAuths(source[t].m_jsSource)]
    /\ pc' = [pc EXCEPT ![t] = "sites"]
    /\ UNCHANGED <<engine, enginesBuilt, mutex, mutexesBuilt,
                   evaluating, dir, local>>
    /\ UNCHANGED storeVars

\* lines 175-189: sites.txt
readSites(t) ==
    /\ pc[t] = "sites"
    /\ source' = [source EXCEPT ![t].m_sites = readLines(dir[t].sites)]
    /\ pc' = [pc EXCEPT ![t] = "supported"]
    /\ UNCHANGED <<engine, enginesBuilt, mutex, mutexesBuilt,
                   evaluating, dir, local>>
    /\ UNCHANGED storeVars

\* lines 192-202: supported.txt, and the constructor returns
readSupported(t) ==
    /\ pc[t] = "supported"
    /\ source' = [source EXCEPT
                     ![t].m_supportedSites = readLines(dir[t].supported)]
    /\ pc' = [pc EXCEPT ![t] = "done"]
    /\ UNCHANGED <<engine, enginesBuilt, mutex, mutexesBuilt,
                   evaluating, dir, local>>
    /\ UNCHANGED storeVars

NextLoad ==
    \E t \in Threads :
        \/ openModel(t)
        \/ jsEngineTest(t)
        \/ jsEngineBuild(t)
        \/ jsEngineReturn(t)
        \/ evaluateBegin(t)
        \/ evaluateEnd(t)
        \/ apisNext(t)
        \/ jsEngineMutexNew(t)
        \/ apiAppend(t)
        \/ readAuths(t)
        \/ readSites(t)
        \/ readSupported(t)

(***************************************************************************)
(* Source::addSite and Source::removeSite.  A call is two steps, the read  *)
(* of sites.txt and its rewrite: nothing in the code makes them one.       *)
(***************************************************************************)
\* line 216, 236 with the result of open ignored
openFailedIgnored(readOk) == FALSE

\* lines 216, 236: !read.open(QIODevice::ReadOnly)
openFailed(readOk) == ~readOk

\* writeFile of functions.cpp: the file holds data and true is returned, or
\* the file is left as it was and false is returned
writeFile(writeOk, old, data) == IF writeOk THEN data ELSE old

NoCall == [op |-> "none", url |-> <<>>, rawSites |-> <<>>, start |-> <<>>,
           readOk |-> TRUE]

Returned(c, ok, writeOk, after) ==
    [caller |-> c, op |-> call[c].op, url |-> call[c].url, ok |-> ok,
     readOk |-> call[c].readOk, writeOk |-> writeOk,
     start |-> call[c].start, before |-> sitesTxt, after |-> after]

\* lines 215-220 and 235-240: sites.txt is opened and read, or false is
\* returned
readCurrentSites(c, op, url, readOk) ==
    /\ cpc[c] = "idle"
    /\ left[c] > 0
    /\ IF openFailed(readOk)
       THEN /\ log' = Append(log,
                  [caller |-> c, op |-> op, url |-> url, ok |-> FALSE,
                   readOk |-> readOk, writeOk |-> TRUE, start |-> sitesTxt,
                   before |-> sitesTxt, after |-> sitesTxt])
            /\ left' = [left EXCEPT ![c] = @ - 1]
            /\ UNCHANGED <<cpc, call>>
       ELSE /\ call' = [call EXCEPT ![c] =
                   [op |-> op, url |-> url,
                    rawSites |-> IF readOk THEN sitesTxt ELSE <<>>,
                    start |-> sitesTxt, readOk |-> readOk]]
            /\ cpc' = [cpc EXCEPT ![c] = op]
            /\ UNCHANGED <<left, log>>
    /\ UNCHANGED sitesTxt
    /\ UNCHANGED loadVars

\* lines 229, 247: return writeFile(m_dir.writePath("sites.txt"), data)
saveNewSites(c, data, writeOk) ==
    /\ sitesTxt' = writeFile(writeOk, sitesTxt, data)
    /\ log' = Append(log, Returned(c, writeOk, writeOk,
                                   writeFile(writeOk, sitesTxt, data)))
    /\ cpc' = [cpc EXCEPT ![c] = "idle"]
    /\ call' = [call EXCEPT ![c] = NoCall]
    /\ left' = [left EXCEPT ![c] = @ - 1]
    /\ UNCHANGED loadVars

(***************************************************************************)
(* Inputs                                                                  *)
(***************************************************************************)
\* site->url(): "a", "ab", U+00E9 and U+20AC
Urls == {<<97>>, <<97, 98>>, <<233>>, <<8364>>}

\* sites.txt as found on disk: empty, "ab\na\n", "a\r\nab", "a\na",
\* U+00E9 in UTF-8, "a\n" then U+20AC in UTF-8
InitialSites ==
    {<<>>, <<97, 98, 10, 97, 10>>, <<97, 13, 10, 97, 98>>, <<97, 10, 97>>,
     <<195, 169>>, <<97, 10, 226, 130, 172>>}

\* lines 212-220: addSite up to read.close()
addSiteRead(c) ==
    \E url \in Urls, readOk \in BOOLEAN :
        readCurrentSites(c, "add", url, readOk)

\* the text of sites.txt at the time of the write
rereadSites(c) == sitesTxt

\* lines 219, 239: QString rawSites = read.readAll(), the text the rest of
\* the call works on
rawSitesOf(c) == call[c].rawSites

\* lines 222-229: addSite from the split to the return
addSiteWrite(c) ==
    /\ cpc[c] = "add"
    /\ \E writeOk \in BOOLEAN :
          saveNewSites(c, addSiteData(rawSitesOf(c), call[c].url), writeOk)

\* lines 232-240: removeSite up to read.close()
removeSiteRead(c) ==
    \E url \in Urls, readOk \in BOOLEAN :
        readCurrentSites(c, "remove", url, readOk)

\* lines 242-247: removeSite from the split to the return
removeSiteWrite(c) ==
    /\ cpc[c] = "remove"
    /\ \E writeOk \in BOOLEAN :
          saveNewSites(c, removeSiteData(rawSitesOf(c), call[c].url),
                       writeOk)

NextStore ==
    \E c \in Callers :
        \/ addSiteRead(c)
        \/ addSiteWrite(c)
        \/ removeSiteRead(c)
        \/ removeSiteWrite(c)

(***************************************************************************)
(* Documents and plugin directories                                        *)
(***************************************************************************)
\* an object from its keys and their values, in order
ObjOf(keys, vals) ==
    Obj(keys, [k \in Range(keys) |->
                  vals[CHOOSE i \in DOMAIN keys : keys[i] = k]])

\* obj with one more property; an undefined value is a property left out
withProp(obj, name, v) ==
    IF isUndefined(v) THEN obj
    ELSE Obj(Append(obj.keys, name),
             [k \in DOMAIN obj.props \cup {name} |->
                 IF k = name THEN v ELSE obj.props[k]])

EmptyObj == Obj(<<>>, NoProps)

\* field description nodes: hash fields with sha1, with no hash and no
\* salt, with "SHA1", with the list ["sha1"]; const fields with and without
\* value; text and password fields; a node with no property at all
FieldNodes ==
    {ObjOf(<<"type", "key", "hash", "salt">>,
           <<Str("hash"), Str("k1"), Str("sha1"), Str("salt1")>>),
     ObjOf(<<"type", "key">>, <<Str("hash"), Str("k2")>>),
     ObjOf(<<"type", "key", "hash">>,
           <<Str("hash"), Str("k3"), Str("SHA1")>>),
     ObjOf(<<"type", "key", "hash", "salt">>,
           <<Str("hash"), Str("k4"), Arr(<<Str("sha1")>>), Str("s")>>),
     ObjOf(<<"type", "key", "value">>,
           <<Str("const"), Str("k5"), Str("v")>>),
     ObjOf(<<"type", "key">>, <<Str("const"), Str("k6")>>),
     ObjOf(<<"id", "key", "type", "def">>,
           <<Str("i7"), Str("k7"), Str("text"), Str("d")>>),
     ObjOf(<<"key", "type">>, <<Str("k8"), Str("password")>>),
     EmptyObj}

\* the lists of at most MaxFields field nodes
FieldLists ==
    UNION {[1..n -> FieldNodes] : n \in 0..MaxFields}

\* the "type" of an auth node: absent, the five known ones, another
\* string, and the list ["get"]
AuthTypes ==
    {Undef, Str("oauth2"), Str("oauth1"), Str("http_basic"), Str("get"),
     Str("post"), Str("url"), Arr(<<Str("get")>>)}

\* the "check" of an auth node
Checks ==
    {Undef,
     ObjOf(<<"type", "value">>, <<Str("max_page"), Num(5)>>),
     ObjOf(<<"type", "key">>, <<Str("cookie"), Str("session")>>)}

AuthNode(type, check, fields) ==
    withProp(withProp(withProp(EmptyObj, "type", type), "check", check),
             "fields", fields)

TwoFields ==
    Arr(<<ObjOf(<<"key", "type">>, <<Str("user"), Str("text")>>),
          ObjOf(<<"key", "type">>, <<Str("pass"), Str("password")>>)>>)

\* auth nodes: every type with every field list and with no fields at
\* all, and every type with every check
AuthNodes ==
    {AuthNode(type, Undef, Arr(fields)) :
        type \in AuthTypes, fields \in FieldLists}
    \cup {AuthNode(type, Undef, Undef) : type \in AuthTypes}
    \cup {AuthNode(type, check, TwoFields) :
             type \in AuthTypes, check \in Checks}

BasicNode ==
    ObjOf(<<"type", "passwordType", "check">>,
          <<Str("http_basic"), Str("plain"),
            ObjOf(<<"type", "value">>, <<Str("max_page"), Num(5)>>)>>)

\* the document of a model.js: name, apis, and an auth map
Document(name, apis, auth) ==
    withProp(withProp(withProp(EmptyObj, "name", Str(name)), "apis",
                      ObjOf(apis, [i \in DOMAIN apis |-> EmptyObj])),
             "auth", auth)

File(bytes) == [exists |-> TRUE, data |-> bytes]
NoFile == [exists |-> FALSE, data |-> <<>>]
Model(result) == [exists |-> TRUE, result |-> result]
NoModel == [exists |-> FALSE, result |-> Undef]
EvaluationError == [t |-> "error"]

\* "a\r\n\r\n ab \n" and "b\n"
SitesFile == File(<<97, 13, 10, 13, 10, 32, 97, 98, 32, 10>>)
SupportedFile == File(<<98, 10>>)

\* plugin directories loaded concurrently: no model.js, a model.js that
\* fails to evaluate, one with an api and two auth schemes, one with no
\* api and no auth
LoadDirs ==
    {[model |-> NoModel, sites |-> SitesFile, supported |-> SupportedFile],
     [model |-> Model(EvaluationError), sites |-> SitesFile,
      supported |-> NoFile],
     [model |-> Model(Document("Booru", <<"Json">>,
                  ObjOf(<<"url", "basic">>,
                        <<AuthNode(Str("url"), Undef, TwoFields),
                          BasicNode>>))),
      sites |-> NoFile, supported |-> SupportedFile],
     [model |-> Model(Document("Empty", <<>>, Undef)),
      sites |-> SitesFile, supported |-> SupportedFile]}

\* plugin directories for the compilation of one auth map
CompileDirs ==
    {[model |-> Model(Document("Booru", <<"Html", "Json">>,
                  ObjOf(<<"main", "basic">>, <<node, BasicNode>>))),
      sites |-> SitesFile, supported |-> SupportedFile] :
        node \in AuthNodes}

(***************************************************************************)
(* Specifications                                                          *)
(***************************************************************************)
StaticsInit ==
    /\ engine = 0
    /\ enginesBuilt = 0
    /\ mutex = 0
    /\ mutexesBuilt = 0
    /\ evaluating = {}
    /\ local = [t \in Threads |-> NewLocal]
    /\ source = [t \in Threads |-> NewSource]

StoreIdle ==
    /\ sitesTxt = <<>>
    /\ cpc = [c \in Callers |-> "idle"]
    /\ call = [c \in Callers |-> NoCall]
    /\ left = [c \in Callers |-> 0]
    /\ log = <<>>

LoadIdle ==
    /\ StaticsInit
    /\ pc = [t \in Threads |-> "off"]
    /\ dir = [t \in Threads |->
                 [model |-> NoModel, sites |-> NoFile, supported |-> NoFile]]

\* NThreads threads each construct the Source of one plugin directory
InitLoad ==
    /\ StaticsInit
    /\ pc = [t \in Threads |-> "start"]
    /\ dir \in [Threads -> LoadDirs]
    /\ StoreIdle

\* one thread constructs one Source
InitCompile ==
    /\ StaticsInit
    /\ pc = [t \in Threads |-> IF t = 1 THEN "start" ELSE "off"]
    /\ \E d \in CompileDirs :
          dir = [t \in Threads |->
                    IF t = 1 THEN d
                    ELSE [model |-> NoModel, sites |-> NoFile,
                          supported |-> NoFile]]
    /\ StoreIdle

\* one caller makes MaxCalls calls of addSite/removeSite, one after another
InitStore ==
    /\ LoadIdle
    /\ sitesTxt \in InitialSites
    /\ cpc = [c \in Callers |-> "idle"]
    /\ call = [c \in Callers |-> NoCall]
    /\ left = [c \in Callers |-> IF c = 1 THEN MaxCalls ELSE 0]
    /\ log = <<>>

\* two callers make one call each, concurrently
InitRace ==
    /\ LoadIdle
    /\ sitesTxt \in InitialSites
    /\ cpc = [c \in Callers |-> "idle"]
    /\ call = [c \in Callers |-> NoCall]
    /\ left = [c \in Callers |-> 1]
    /\ log = <<>>

SpecLoad == InitLoad /\ [][NextLoad]_vars
SpecCompile == InitCompile /\ [][NextLoad]_vars
SpecStore == InitStore /\ [][NextStore]_vars
SpecRace == InitRace /\ [][NextStore]_vars

(***************************************************************************)
(* Properties of the concurrent construction (SpecLoad)                    *)
(***************************************************************************)
\* C1: in no reachable state are two calls of the shared engine's evaluate
\* in progress at the same time.
C1_EvaluateSerialized == Cardinality(evaluating) <= 1

\* C2: the script runtime is built exactly once, and every Source that
\* asked for it received the same instance.
C2_SingleEngine ==
    /\ enginesBuilt <= 1
    /\ \A t1, t2 \in Threads :
          (local[t1].engine # 0 /\ local[t2].engine # 0)
              => local[t1].engine = local[t2].engine

Broken(t) ==
    \/ ~dir[t].model.exists
    \/ dir[t].model.result = EvaluationError

\* the lines of SitesFile and SupportedFile: "a", "ab" and "b"
LinesExpected(file) ==
    IF file = SitesFile THEN <<<<97>>, <<97, 98>>>>
    ELSE IF file = SupportedFile THEN <<<<98>>>>
    ELSE <<>>

\* C7: a Source constructed from a directory with no model.js, or with one
\* whose evaluation reports an error, has an empty name, no api and no
\* auth, and its site and supported-site lists are loaded from their files.
C7_BrokenPluginIsEmpty ==
    \A t \in Threads :
        (pc[t] = "done" /\ Broken(t)) =>
            /\ source[t].m_name = ""
            /\ source[t].m_apis = <<>>
            /\ DOMAIN source[t].m_auths = {}
            /\ source[t].m_sites = LinesExpected(dir[t].sites)
            /\ source[t].m_supportedSites = LinesExpected(dir[t].supported)

C7_Witness ==
    \E t1, t2 \in Threads :
        /\ pc[t1] = "done"
        /\ dir[t1].model.exists
        /\ dir[t1].model.result = EvaluationError
        /\ source[t1].m_sites = <<<<97>>, <<97, 98>>>>
        /\ pc[t2] = "done"
        /\ ~dir[t2].model.exists
        /\ source[t2].m_supportedSites = <<<<98>>>>

(***************************************************************************)
(* Properties of the compiled auth map (SpecCompile)                       *)
(***************************************************************************)
KnownTypes == {"oauth2", "oauth1", "http_basic", "get", "post"}

\* the auth nodes of the document thread t was given, by scheme id
AuthNodesOf(t) == property(dir[t].model.result, "auth")
SchemeIds(t) == Range(ownKeys(AuthNodesOf(t)))
Compiled(t) == pc[t] = "done" /\ ~Broken(t)

\* the elements of the "fields" property of a node
FieldItems(node) ==
    IF property(node, "fields").t = "array"
    THEN property(node, "fields").items ELSE <<>>

\* the key a field node declares, "" when it declares none
DeclaredKey(field) ==
    IF field.t = "object" /\ "key" \in DOMAIN field.props
    THEN field.props["key"].s ELSE ""

UrlWithFieldsInOrder(t, id) ==
    LET node == property(AuthNodesOf(t), id)
        auth == source[t].m_auths[id]
    IN  /\ id \in DOMAIN source[t].m_auths
        /\ auth.variant = "Url"
        /\ Len(auth.fields) = Len(FieldItems(node))
        /\ \A i \in DOMAIN auth.fields :
              auth.fields[i].key = DeclaredKey(FieldItems(node)[i])

\* C5, as stated: every auth node whose type is not one of the strings
\* oauth2, oauth1, http_basic, get, post (a node with no type included) is
\* stored as a Url variant under its scheme id, with one field per element
\* of its fields list, in the same order.
C5_OtherTypeIsUrl ==
    \A t \in Threads :
        Compiled(t) =>
            \A id \in SchemeIds(t) :
                property(property(AuthNodesOf(t), id), "type")
                        \notin {Str(k) : k \in KnownTypes}
                    => UrlWithFieldsInOrder(t, id)

\* C5, amended: every auth node whose type, converted to a string, is not
\* one of oauth2, oauth1, http_basic, get, post (a node with no type, which
\* converts to "undefined", included) is stored as a Url variant under its
\* scheme id, with one field per element of its fields list, in the same
\* order.
C5_OtherTypeStringIsUrl ==
    \A t \in Threads :
        Compiled(t) =>
            \A id \in SchemeIds(t) :
                toString(property(property(AuthNodesOf(t), id), "type"))
                        \notin KnownTypes
                    => UrlWithFieldsInOrder(t, id)

C5_Witness ==
    \E t \in Threads :
        /\ Compiled(t)
        /\ "main" \in SchemeIds(t)
        /\ LET node == property(AuthNodesOf(t), "main")
               auth == source[t].m_auths["main"]
           IN  /\ isUndefined(property(node, "type"))
               /\ Len(FieldItems(node)) = 2
               /\ DeclaredKey(FieldItems(node)[1]) = "k8"
               /\ DeclaredKey(FieldItems(node)[2]) = "k1"
               /\ auth.variant = "Url"
               /\ auth.fields[1].key = "k8"
               /\ auth.fields[2].key = "k1"

\* the pairs <<field node, field built from it>> of the schemes that carry
\* a field list
BuiltFields(t) ==
    UNION {LET node == property(AuthNodesOf(t), id)
               auth == source[t].m_auths[id]
           IN  IF auth.variant \in {"Http", "Url"}
               THEN {<<FieldItems(node)[i], auth.fields[i]>> :
                        i \in DOMAIN auth.fields}
               ELSE {} : id \in SchemeIds(t)}

Absent(field, name) == name \notin DOMAIN field.props

\* C6: a property missing from a field node is the empty string in the
\* field built from it: salt of a hash field, value of a const field, id,
\* key and default of a text field.
C6_AbsentIsEmpty ==
    \A t \in Threads :
        Compiled(t) =>
            \A p \in BuiltFields(t) :
                /\ (p[2].kind = "hash" /\ Absent(p[1], "salt"))
                       => p[2].salt = ""
                /\ (p[2].kind = "const" /\ Absent(p[1], "value"))
                       => p[2].value = ""
                /\ (p[2].kind = "text" /\ Absent(p[1], "id")) => p[2].id = ""
                /\ (p[2].kind = "text" /\ Absent(p[1], "key"))
                       => p[2].key = ""
                /\ (p[2].kind = "text" /\ Absent(p[1], "def"))
                       => p[2].def = ""

IsHashNode(field) == property(field, "type") = Str("hash")

\* C9, as stated: the field built from a node of type "hash" has algorithm
\* SHA1 if and only if the node's hash property is exactly the string
\* "sha1"; for any other value, an absent one included, it has MD5.
C9_Sha1IffExactString ==
    \A t \in Threads :
        Compiled(t) =>
            \A p \in BuiltFields(t) :
                IsHashNode(p[1]) =>
                    /\ p[2].kind = "hash"
                    /\ p[2].algo \in {"Sha1", "Md5"}
                    /\ p[2].algo = "Sha1"
                           <=> property(p[1], "hash") = Str("sha1")

\* C9, amended: the field built from a node of type "hash" has algorithm
\* SHA1 if and only if the node's hash property, converted to a string, is
\* exactly "sha1" (the string "sha1", and also the list ["sha1"]); for any
\* other value, an absent one included, it has MD5.
C9_Sha1IffStringIsSha1 ==
    \A t \in Threads :
        Compiled(t) =>
            \A p \in BuiltFields(t) :
                IsHashNode(p[1]) =>
                    /\ p[2].kind = "hash"
                    /\ p[2].algo \in {"Sha1", "Md5"}
                    /\ p[2].algo = "Sha1"
                           <=> toString(property(p[1], "hash")) = "sha1"

C9_Witness ==
    \E t \in Threads :
        /\ Compiled(t)
        /\ \E p, q \in BuiltFields(t) :
              /\ IsHashNode(p[1]) /\ Absent(p[1], "hash")
              /\ p[2].algo = "Md5"
              /\ IsHashNode(q[1]) /\ property(q[1], "hash") = Str("sha1")
              /\ q[2].algo = "Sha1"

(***************************************************************************)
(* Properties of addSite and removeSite called one after another           *)
(* (SpecStore) and concurrently (SpecRace)                                 *)
(***************************************************************************)
\* the persisted list: the entries the code reads back from the bytes
Persisted(bytes) == sitesOf(bytes)

IsSorted(list) ==
    \A i, j \in DOMAIN list : i < j => ~lessThan(list[j], list[i])

NoDuplicates(list) ==
    \A i, j \in DOMAIN list : list[i] = list[j] => i = j

Succeeded(i, op) == log[i].op = op /\ log[i].ok

\* C3: a second successful add(url) right after a successful add(url)
\* leaves the persisted list as the first left it, and after every
\* successful add the persisted list is sorted and has no duplicate.
C3_AddIdempotentSorted ==
    \A i \in DOMAIN log :
        Succeeded(i, "add") =>
            /\ IsSorted(Persisted(log[i].after))
            /\ NoDuplicates(Persisted(log[i].after))
            /\ (i > 1 /\ Succeeded(i - 1, "add")
                      /\ log[i - 1].url = log[i].url)
                   => log[i].after = log[i - 1].after

\* C4: a call of add or remove that cannot read the list, or cannot write
\* the new one, returns false and leaves the persisted list as it was
\* before the call.
C4_FailureLeavesList ==
    \A i \in DOMAIN log :
        (~log[i].readOk \/ ~log[i].writeOk) =>
            /\ ~log[i].ok
            /\ log[i].after = log[i].start
            /\ i = Len(log) => sitesTxt = log[i].start

C4_Witness ==
    \E i, j \in DOMAIN log :
        /\ ~log[i].readOk
        /\ log[i].start # <<>>
        /\ ~log[j].writeOk
        /\ log[j].op = "add"
        /\ log[j].url \notin Range(Persisted(log[j].start))
        /\ sitesTxt = log[j].start

\* C8: after a successful remove(url) and then a successful add(url) the
\* url is in the persisted list, and a successful remove(url) of a url
\* that is not in the list leaves the entries of the list unchanged.
C8_RemoveThenAddRestores ==
    \A i \in DOMAIN log :
        /\ (i > 1 /\ Succeeded(i - 1, "remove") /\ Succeeded(i, "add")
                  /\ log[i - 1].url = log[i].url)
               => log[i].url \in Range(Persisted(log[i].after))
        /\ (Succeeded(i, "remove")
                  /\ log[i].url \notin Range(Persisted(log[i].start)))
               => Persisted(log[i].after) = Persisted(log[i].start)

\* the urls that are the same text in Latin-1 and in UTF-8
IsAscii(url) == \A i \in DOMAIN url : url[i] < 128

\* C10: when two calls on the same sites.txt both succeed and the one that
\* wrote last had read the list the other had read, the final persisted
\* list shows nothing of the other call's update: the other call's url is
\* in the final list exactly if it was in the list both read.
C10_LostUpdate ==
    (/\ Len(log) = 2
     /\ log[1].ok
     /\ log[2].ok
     /\ log[2].start = log[1].start
     /\ log[1].url # log[2].url
     /\ IsAscii(log[1].url))
        => (log[1].url \in Range(Persisted(sitesTxt))
               <=> log[1].url \in Range(Persisted(log[1].start)))

\* both calls are adds of different urls, the second read before the first
\* wrote, both returned true, and the first url is not in the final list
C10_Witness ==
    /\ Len(log) = 2
    /\ Succeeded(1, "add")
    /\ Succeeded(2, "add")
    /\ log[1].caller # log[2].caller
    /\ log[1].url = <<97>>
    /\ log[2].url = <<97, 98>>
    /\ log[2].start = log[1].start
    /\ log[2].before # log[2].start
    /\ log[1].after = log[2].before
    /\ <<97>> \in Range(Persisted(log[1].after))
    /\ <<97>> \notin Range(Persisted(sitesTxt))
    /\ <<97, 98>> \in Range(Persisted(sitesTxt))

=============================================================================
